---- MODULE Spec2Model ----
(***************************************************************************)
(* Model of the asynchronous notification pipeline of the task tracker:    *)
(* the Kafka producer, the notifier's consumer loop and per-event          *)
(* processing, the notification store and its user operations, the domain  *)
(* operations that publish events, and the scheduler triggers.             *)
(***************************************************************************)
EXTENDS Integers, Sequences, FiniteSets, TLC

(***************************************************************************)
(* Bounds of the model.                                                    *)
(***************************************************************************)
MaxLog == 2        \* messages appended to the notifications topic
MaxFaults == 1     \* I/O calls (database, broker, cache, chat API) that fail in one behaviour
MaxCalls == 3      \* notification API calls and scheduler runs in one behaviour
MaxOps == 2        \* domain operations (task create/update, comment create) in one behaviour
MaxReads == 1      \* unread-count reads in flight at one time

(***************************************************************************)
(* Values.                                                                 *)
(***************************************************************************)
Nil == "nil"                 \* a Go nil pointer / absent optional value
EmptyID == <<>>              \* the empty string "" as a notification id
NullTime == -1               \* a NULL timestamp (nil *time.Time)
Day == 2                     \* 24 hours, in ticks of the wall clock
Week == 7 * Day

NotificationsTopic == "notifications"

\* rows of the users table ("u9" in an event is an id no row carries)
Users == {"u1", "u2", "u3"}

\* rows of user_notification_settings: u1 has the chat channel on, u2 has it
\* off, u3 has no row at all
NotificationTypes == {"task_assigned", "task_commented", "task_overdue", "project_updated",
                      "task_due_soon", "digest"}
Settings ==
    {[user_id |-> "u1", notification_type |-> t, email_enabled |-> TRUE,
      web_enabled |-> TRUE, telegram_enabled |-> TRUE] : t \in NotificationTypes}
    \cup
    {[user_id |-> "u2", notification_type |-> t, email_enabled |-> TRUE,
      web_enabled |-> TRUE, telegram_enabled |-> FALSE] : t \in NotificationTypes}

\* rows of telegram_links
TelegramLinks == {"u1"}

\* ids of the rows of the projects table
Projects == {"p1", "p2", "p3"}

\* rows of project_members
ProjectMembers ==
    {[project_id |-> "p1", user_id |-> "u1", role |-> "owner"],
     [project_id |-> "p2", user_id |-> "u1", role |-> "owner"],
     [project_id |-> "p2", user_id |-> "u2", role |-> "member"],
     [project_id |-> "p3", user_id |-> "u2", role |-> "owner"]}

VARIABLES
    tasks,          \* tasks table: task id -> row
    notifications,  \* notifications table: set of rows
    topics,         \* broker: topic name -> sequence of messages
    offset,         \* consumer: index of the next message of the notifications topic
    units,          \* processing goroutines: message index -> [st, pos]
    results,        \* what processing did for each (message, recipient)
    crashed,        \* the notifier process died of an unrecovered panic
    errorLog,       \* entries written with logger.Error / logger.Warn
    faults,         \* number of failed I/O calls so far
    comments,       \* comments table: set of rows
    cache,          \* cache entries [key, value]
    last,           \* response to the latest call, with the log lines it wrote
    runs,           \* completed scheduler runs of the overdue check
    now,            \* the wall clock
    reads,          \* GetUnreadCount calls in flight: [user, count] read from the database
    projects,       \* projects table: project id -> row
    committed,      \* consumer group: index of the last message whose offset is committed
    stopped,        \* the notifier process got the shutdown signal and closed its reader
    jobs,           \* scheduler runs in progress: [trigger, at, listed]
    writerTopic,    \* producer: the Topic field of the shared kafka.Writer
    calls           \* producer: publishEvent calls between setting Topic and writing

vars == <<tasks, notifications, topics, offset, units, results, crashed, errorLog, faults,
          comments, cache, last, runs, now, reads, projects, committed, stopped, jobs,
          writerTopic, calls>>

\* state of the notifier process / state of the API server and the scheduler
pipeVars == <<offset, units, results, crashed, committed, stopped>>
jobVars == <<jobs, writerTopic, calls>>
apiVars == <<comments, cache, last, runs, now, reads, projects, jobVars>>

(***************************************************************************)
(* Repositories.                                                           *)
(***************************************************************************)

\* a nil *domain.Task
NilTask == [id |-> Nil, project_id |-> Nil, created_by |-> Nil,
            assignee_id |-> Nil, status |-> Nil, due_date |-> NullTime,
            updated_at |-> NullTime]

\* UserRepository.GetByID: sql.ErrNoRows is turned into (nil, nil)
UserGetByID(id) == IF id \in Users THEN id ELSE Nil

\* TaskRepository.GetByID: sql.ErrNoRows is turned into (nil, nil)
TaskGetByID(id) == IF id \in DOMAIN tasks THEN tasks[id] ELSE NilTask

\* ProjectRepository.GetByID: sql.ErrNoRows is turned into (nil, nil)
ProjectGetByID(id) == IF id \in Projects THEN id ELSE Nil

\* TelegramRepository.GetByUserID: sql.ErrNoRows is turned into (nil, nil)
TelegramGetByUserID(id) == IF id \in TelegramLinks THEN id ELSE Nil

\* NotificationRepository.GetUserNotificationSettings: the rows of one user
GetUserNotificationSettings(userID) == {s \in Settings : s.user_id = userID}

\* the user has a settings row for the type
HasSettingsRow(userID, type) ==
    \E setting \in GetUserNotificationSettings(userID) : setting.notification_type = type

(***************************************************************************)
(* Event envelope and its JSON encoding.                                   *)
(***************************************************************************)

\* json.Marshal of a NotificationEvent: a JSON object carrying its fields
Marshal(event) == [json |-> "object", fields |-> event]

\* a payload that is not JSON at all
Garbage == [json |-> "invalid", fields |-> <<>>]

\* a decoder that accepts any payload and yields an event without recipients
UnmarshalLenient(data) ==
    IF data.json = "object" THEN [err |-> FALSE, event |-> data.fields]
    ELSE [err |-> FALSE,
          event |-> [type |-> "", user_ids |-> <<>>, entity_id |-> "", entity_type |-> ""]]

\* json.Unmarshal into a NotificationEvent
Unmarshal(data) ==
    IF data.json = "object"
    THEN [err |-> FALSE, event |-> data.fields]
    ELSE [err |-> TRUE, event |-> Nil]

(***************************************************************************)
(* Initial state.                                                          *)
(***************************************************************************)
Task(id, creator, assignee, status, due, at) ==
    [id |-> id, project_id |-> "p1", created_by |-> creator,
     assignee_id |-> assignee, status |-> status, due_date |-> due, updated_at |-> at]

\* t1 is past due and assigned; t2 was created by its own assignee; t3 has
\* neither an assignee nor a due date; t0, of project p2, is due within a day
InitTasks ==
    [id \in {"t0", "t1", "t2", "t3"} |->
        CASE id = "t0" -> [Task("t0", "u2", "u1", "new", 1 + Day, 0) EXCEPT !.project_id = "p2"]
          [] id = "t1" -> Task("t1", "u3", "u1", "new", 0, 0)
          [] id = "t2" -> Task("t2", "u2", "u2", "in_progress", 0, 0)
          [] id = "t3" -> Task("t3", "u1", Nil, "new", NullTime, 0)]

\* p1 is active; p2 is completed and was last touched more than a week ago,
\* but its task t0 is not finished; p3 is completed, has no task, and was
\* touched within the last week
InitProjects ==
    [id \in Projects |->
        CASE id = "p1" -> [id |-> "p1", name |-> "alpha", status |-> "active", updated_at |-> 0]
          [] id = "p2" -> [id |-> "p2", name |-> "beta", status |-> "completed",
                           updated_at |-> 0 - 3 * Week]
          [] id = "p3" -> [id |-> "p3", name |-> "gamma", status |-> "completed",
                           updated_at |-> 0]]

Init ==
    /\ tasks = InitTasks
    /\ notifications = {}
    /\ topics = [t \in {NotificationsTopic, "tasks", "comments", "projects"} |-> <<>>]
    /\ offset = 1
    /\ units = <<>>
    /\ results = {}
    /\ crashed = FALSE
    /\ errorLog = {}
    /\ faults = 0
    /\ comments = {}
    /\ cache = {}
    /\ last = [op |-> Nil, id |-> EmptyID, entity |-> Nil, user |-> Nil, err |-> Nil,
               at |-> NullTime, logged |-> {}]
    /\ runs = <<>>
    /\ now = 1
    /\ reads = {}
    /\ projects = InitProjects
    /\ committed = 0
    /\ stopped = FALSE
    /\ jobs = {}
    /\ writerTopic = Nil
    /\ calls = {}

(***************************************************************************)
(* Event Publisher.                                                        *)
(***************************************************************************)

\* KafkaProducer.publishEvent: marshal the event and append it to the topic
\* under the given key; ok = FALSE is a transport failure of WriteMessages
publishEvent(log, topic, key, event, ok) ==
    IF ok
    THEN [err |-> FALSE,
          log |-> [log EXCEPT ![topic] = Append(@, [key |-> key, value |-> Marshal(event)])]]
    ELSE [err |-> TRUE, log |-> log]

\* KafkaProducer.PublishNotification: the partition key is the entity id
PublishNotification(log, event, ok) ==
    publishEvent(log, NotificationsTopic, event.entity_id, event, ok)

NotificationEvent(type, userIDs, entityID, entityType) ==
    [type |-> type, user_ids |-> userIDs, entity_id |-> entityID, entity_type |-> entityType]

\* events that producers put on the notifications topic: recipients with the
\* chat channel on / off / without a settings row / without a users row, and
\* entities that are stored ("t1", "p1") or no longer stored ("t9")
EventInputs ==
    { NotificationEvent("task_assigned", <<"u1", "u2">>, "t1", "task"),
      NotificationEvent("task_assigned", <<"u2", "u1">>, "t9", "task"),
      NotificationEvent("task_commented", <<"u3", "u9">>, "c1", "comment"),
      NotificationEvent("project_updated", <<"u9", "u1">>, "p1", "project") }

\* a producer publishes a notification event
Publish(event) ==
    /\ Len(topics[NotificationsTopic]) < MaxLog
    /\ topics' = PublishNotification(topics, event, TRUE).log
    /\ UNCHANGED <<tasks, notifications, errorLog, faults, pipeVars, apiVars>>

\* some other writer appends a payload that is not a JSON object
PublishGarbage ==
    /\ Len(topics[NotificationsTopic]) < MaxLog
    /\ topics' = [topics EXCEPT ![NotificationsTopic] =
                      Append(@, [key |-> "", value |-> Garbage])]
    /\ UNCHANGED <<tasks, notifications, errorLog, faults, pipeVars, apiVars>>

\* calls of the producer's publish methods, as (topic, key, event):
\* PublishNotification, PublishTaskAssigned and PublishTaskCommented
ProducerCalls ==
    { [topic |-> NotificationsTopic, key |-> "t1",
       event |-> NotificationEvent("task_assigned", <<"u1">>, "t1", "task")],
      [topic |-> "tasks", key |-> "t1",
       event |-> [id |-> "t1", type |-> "task_assigned", assignee_id |-> "u1"]],
      [topic |-> "comments", key |-> "c1",
       event |-> [task_id |-> "t1", comment_id |-> "c1", type |-> "task_commented"]] }

\* messages written plus calls on their way
Published == Len(topics[NotificationsTopic]) + Len(topics["tasks"]) + Len(topics["comments"])

\* publishEvent up to `p.writer.Topic = topic`: the event is marshalled and
\* the topic is stored in the one writer all calls share
PublishBegin(call) ==
    /\ Published + Cardinality(calls) < MaxLog
    /\ LET free == {i \in 1..MaxLog : \A c \in calls : c.id # i}
           id == CHOOSE i \in free : \A k \in free : i <= k
       IN  calls' = calls \cup {[id |-> id, topic |-> call.topic, key |-> call.key,
                                 event |-> call.event]}
    /\ writerTopic' = call.topic
    /\ UNCHANGED <<tasks, notifications, topics, errorLog, faults, pipeVars, comments, cache,
                   last, runs, now, reads, projects, jobs>>

\* publishEvent from WriteMessages to its return: the writer sends the
\* message to the topic its Topic field holds at that moment
PublishWrite(id, ok) ==
    \E call \in calls :
        /\ call.id = id
        /\ ok \/ faults < MaxFaults
        /\ faults' = IF ok THEN faults ELSE faults + 1
        /\ topics' = publishEvent(topics, writerTopic, call.key, call.event, ok).log
        /\ errorLog' = errorLog
               \cup (IF ok THEN {} ELSE {<<"Failed to publish event", call.topic>>})
        /\ calls' = calls \ {call}
        /\ UNCHANGED <<tasks, notifications, pipeVars, comments, cache, last, runs, now, reads,
                       projects, jobs, writerTopic>>

\* goroutines of the API publish on the one producer side by side
NextProducer ==
    \/ \E call \in ProducerCalls : PublishBegin(call)
    \/ \E id \in 1..MaxLog, ok \in BOOLEAN : PublishWrite(id, ok)

SpecProducer == Init /\ [][NextProducer]_vars

\* C29: a message is added to a topic only by a publish call that was given
\* this topic, whatever other calls run on the producer at the same time.
C29_WrittenToOwnTopic ==
    [][\A t \in DOMAIN topics :
          Len(topics'[t]) > Len(topics[t]) => \E call \in calls \ calls' : call.topic = t]_vars

(***************************************************************************)
(* Notification Consumer and Processor.                                    *)
(***************************************************************************)

\* uuid.New().String(): a fresh, non-empty identifier; m is the message being
\* processed (0: none, an API call) and i the recipient index or the time
NewUUID(m, i) == <<"uuid", m, i>>

FaultFlags == [settings : BOOLEAN, user : BOOLEAN, send : BOOLEAN,
               enrich : BOOLEAN, create : BOOLEAN]

CountTrue(f) == Cardinality({k \in DOMAIN f : f[k]})

\* a processor that takes the chat channel of a type without a settings row
\* to be switched on
TelegramEnabledByDefault(userID, type) ==
    \/ \A setting \in GetUserNotificationSettings(userID) : setting.notification_type # type
    \/ \E setting \in GetUserNotificationSettings(userID) :
          setting.notification_type = type /\ setting.telegram_enabled

\* processNotificationEvent: telegramEnabled starts false and is set by the
\* settings row of the event's type
TelegramEnabled(userID, type) ==
    \E setting \in GetUserNotificationSettings(userID) :
        setting.notification_type = type /\ setting.telegram_enabled

\* one iteration of the loop over event.UserIDs in processNotificationEvent;
\* f says which of the I/O calls of this iteration fail
ProcessRecipient(event, userID, nid, f) ==
    LET settingsErr == f.settings
        telegramEnabled == TelegramEnabled(userID, event.type)
        userReached == ~settingsErr
        userErr == userReached /\ f.user
        user == UserGetByID(userID)
        built == userReached /\ ~userErr
        notification == [id |-> nid, user_id |-> userID, type |-> event.type,
                         status |-> "unread", entity_id |-> event.entity_id,
                         entity_type |-> event.entity_type, read_at |-> NullTime]
        \* SendNotification dereferences user.ID
        sendReached == built /\ telegramEnabled
        sendPanic == sendReached /\ user = Nil
        sent == IF ~sendReached \/ sendPanic THEN "none"
                ELSE IF f.send \/ TelegramGetByUserID(user) = Nil THEN "fail"
                ELSE "ok"
        enrichReached == /\ built /\ ~sendPanic
                         /\ event.entity_type \in {"task", "project"}
                         /\ event.entity_id # ""
        entity == IF event.entity_type = "task"
                  THEN TaskGetByID(event.entity_id).id
                  ELSE ProjectGetByID(event.entity_id)
        \* err == nil with a nil row: task.Title / project.Name dereference nil
        enrichPanic == enrichReached /\ ~f.enrich /\ entity = Nil
        enrich == IF ~enrichReached \/ enrichPanic THEN "none"
                  ELSE IF f.enrich THEN "fail" ELSE "ok"
        createReached == /\ built /\ ~sendPanic /\ ~enrichPanic
                         /\ notification.id = EmptyID
    IN  [user |-> userID,
         settingsErr |-> settingsErr,
         userErr |-> userErr,
         telegramEnabled |-> telegramEnabled,
         sent |-> sent,
         enrich |-> enrich,
         saved |-> createReached /\ ~f.create,
         row |-> notification,
         panic |-> sendPanic \/ enrichPanic,
         wellFormed |-> /\ f.user => userReached
                        /\ f.send => (sendReached /\ ~sendPanic)
                        /\ f.enrich => enrichReached
                        /\ f.create => createReached]

\* logger.Error / logger.Warn behind a condition
LogIf(cond, entry) == IF cond THEN {entry} ELSE {}

Payload(m) == topics[NotificationsTopic][m].value

\* consumeNotifications: ReadMessage returns the next message of the topic
\* and the loop starts a goroutine for it without waiting for it
ConsumerRead ==
    /\ ~crashed /\ ~stopped
    /\ offset <= Len(topics[NotificationsTopic])
    /\ units' = Append(units, [st |-> "running", pos |-> 0])
    /\ offset' = offset + 1
    /\ UNCHANGED <<tasks, notifications, topics, results, crashed, errorLog, faults, committed,
                   stopped, apiVars>>

\* processNotificationEvent, up to the loop: json.Unmarshal of the payload;
\* on failure the error is returned to the goroutine, which logs it and ends
ProcessUnmarshal(m) ==
    /\ ~crashed
    /\ m \in DOMAIN units
    /\ units[m].st = "running" /\ units[m].pos = 0
    /\ LET parsed == Unmarshal(Payload(m)) IN
         IF parsed.err
         THEN /\ units' = [units EXCEPT ![m] = [st |-> "failed", pos |-> 0]]
              /\ errorLog' = errorLog \cup {<<"Failed to process notification event", m>>}
         ELSE /\ units' = [units EXCEPT ![m] =
                              IF Len(parsed.event.user_ids) = 0
                              THEN [st |-> "done", pos |-> 1]
                              ELSE [st |-> "running", pos |-> 1]]
              /\ errorLog' = errorLog
    /\ UNCHANGED <<tasks, notifications, topics, offset, results, crashed, faults, committed,
                   stopped, apiVars>>

\* processNotificationEvent: the loop body for the recipient at units[m].pos
ProcessStep(m, f) ==
    /\ ~crashed
    /\ m \in DOMAIN units
    /\ units[m].st = "running" /\ units[m].pos >= 1
    /\ LET event == Unmarshal(Payload(m)).event
           i == units[m].pos
           r == ProcessRecipient(event, event.user_ids[i], NewUUID(m, i), f)
       IN  /\ r.wellFormed
           /\ faults + CountTrue(f) <= MaxFaults
           /\ faults' = faults + CountTrue(f)
           /\ results' = results \cup
                  {[msg |-> m, idx |-> i, user |-> r.user, settingsErr |-> r.settingsErr,
                    userErr |-> r.userErr, telegramEnabled |-> r.telegramEnabled,
                    sent |-> r.sent, enrich |-> r.enrich, saved |-> r.saved,
                    panic |-> r.panic]}
           /\ notifications' = IF r.saved THEN notifications \cup {r.row} ELSE notifications
           /\ crashed' = r.panic
           /\ units' = [units EXCEPT ![m] =
                           IF r.panic THEN [st |-> "aborted", pos |-> i]
                           ELSE IF i = Len(event.user_ids) THEN [st |-> "done", pos |-> i + 1]
                           ELSE [st |-> "running", pos |-> i + 1]]
           /\ errorLog' = errorLog
                  \cup LogIf(r.settingsErr, <<"Failed to get user notification settings", m, i>>)
                  \cup LogIf(r.userErr, <<"Failed to get user", m, i>>)
                  \cup LogIf(r.sent = "fail", <<"Failed to send Telegram notification", m, i>>)
                  \cup LogIf(f.create, <<"Failed to save notification", m, i>>)
    /\ UNCHANGED <<tasks, topics, offset, committed, stopped, apiVars>>

\* the reader's commit loop: every CommitInterval it commits the offsets of
\* the messages ReadMessage has returned, whatever their goroutines have done
Commit ==
    /\ ~crashed
    /\ committed < offset - 1
    /\ committed' = offset - 1
    /\ UNCHANGED <<tasks, notifications, topics, offset, units, results, crashed, stopped,
                   errorLog, faults, apiVars>>

\* the notifier process is killed
Crash ==
    /\ ~crashed
    /\ faults < MaxFaults
    /\ faults' = faults + 1
    /\ crashed' = TRUE
    /\ UNCHANGED <<tasks, notifications, topics, offset, units, results, committed, stopped,
                   errorLog, apiVars>>

\* a restart that resumes with the first message whose goroutine had not
\* come to its end
RestartFromUnfinished ==
    LET unfinished == {m \in DOMAIN units : units[m].st = "running"}
        first == IF unfinished = {} THEN offset
                 ELSE CHOOSE m \in unfinished : \A k \in unfinished : m <= k
    IN  /\ crashed
        /\ crashed' = FALSE
        /\ stopped' = FALSE
        /\ offset' = first
        /\ units' = SubSeq(units, 1, first - 1)
        /\ UNCHANGED <<tasks, notifications, topics, results, committed, errorLog, faults,
                       apiVars>>

\* the notifier process starts again: NewNotifierService builds a reader
\* of the group, which resumes after the last committed offset; the
\* goroutines of the old process are gone
Restart ==
    /\ crashed
    /\ crashed' = FALSE
    /\ stopped' = FALSE
    /\ offset' = committed + 1
    /\ units' = [m \in 1..committed |->
                     IF units[m].st = "running" THEN [units[m] EXCEPT !.st = "lost"]
                     ELSE units[m]]
    /\ UNCHANGED <<tasks, notifications, topics, results, committed, errorLog, faults, apiVars>>

\* main gets SIGINT / SIGTERM and calls Stop, which closes the reader; the
\* context of the consumer is not cancelled
Shutdown ==
    /\ ~crashed /\ ~stopped
    /\ stopped' = TRUE
    /\ UNCHANGED <<tasks, notifications, topics, offset, units, results, crashed, committed,
                   errorLog, faults, apiVars>>

\* consumeNotifications after Stop: ctx.Done() is not closed, so the loop
\* calls ReadMessage on the closed reader, logs its error and goes round again
ConsumerReadFails ==
    /\ ~crashed /\ stopped
    /\ errorLog' = errorLog \cup {<<"Failed to read message from Kafka", offset>>}
    /\ UNCHANGED <<tasks, notifications, topics, offset, units, results, crashed, committed,
                   stopped, faults, apiVars>>

\* main returns five seconds after Stop, whatever the goroutines are doing
Exit ==
    /\ ~crashed /\ stopped
    /\ crashed' = TRUE
    /\ UNCHANGED <<tasks, notifications, topics, offset, units, results, committed, stopped,
                   errorLog, faults, apiVars>>

NextProc ==
    \/ \E e \in EventInputs : Publish(e)
    \/ PublishGarbage
    \/ ConsumerRead
    \/ \E m \in 1..MaxLog : ProcessUnmarshal(m)
    \/ \E m \in 1..MaxLog, f \in FaultFlags : ProcessStep(m, f)

SpecProc == Init /\ [][NextProc]_vars

\* no I/O call of the processor fails
NoFault == [settings |-> FALSE, user |-> FALSE, send |-> FALSE, enrich |-> FALSE,
            create |-> FALSE]

\* the notifier process with its consumer group over crashes, restarts and
\* shutdown
ConsumerInputs ==
    { NotificationEvent("task_assigned", <<"u1">>, "t1", "task") }

NextConsumer ==
    \/ \E e \in ConsumerInputs : Publish(e)
    \/ ConsumerRead
    \/ \E m \in 1..MaxLog : ProcessUnmarshal(m)
    \/ \E m \in 1..MaxLog : ProcessStep(m, NoFault)
    \/ Commit
    \/ Crash
    \/ Restart
    \/ Shutdown
    \/ ConsumerReadFails
    \/ Exit

SpecConsumer == Init /\ [][NextConsumer]_vars

(***************************************************************************)
(* Properties of the Notification Processor and Consumer.                  *)
(***************************************************************************)

Recipients(m) == Unmarshal(Payload(m)).event.user_ids
ResultsOf(m) == {r \in results : r.msg = m}
\* the records that the processing of message m stored
RowsOf(m) == {n \in notifications : \E i \in 1..Len(n.id) : n.id = NewUUID(m, i)}
Deserializable(m) == ~Unmarshal(Payload(m)).err
\* no I/O call failed while message m was processed
FaultFree(m) ==
    \A r \in ResultsOf(m) :
        ~r.settingsErr /\ ~r.userErr /\ r.enrich # "fail" /\ ~r.panic
\* the processing of one recipient ran into a failure: an I/O error, or a
\* lookup that found no row
Failed(r) ==
    r.settingsErr \/ r.userErr \/ r.sent = "fail" \/ r.enrich = "fail" \/ r.panic

\* C1: when an event with N distinct recipients has been processed with all
\* lookups and store writes succeeding, exactly N notification records exist
\* for it, one per recipient, unread, with the event's type and entity.
C1_ExactlyNRecords ==
    \A m \in DOMAIN units :
        (units[m].st = "done" /\ Deserializable(m) /\ FaultFree(m)) =>
            LET event == Unmarshal(Payload(m)).event IN
            /\ Cardinality(RowsOf(m)) = Len(event.user_ids)
            /\ \A i \in 1..Len(event.user_ids) :
                  \E n \in RowsOf(m) :
                      /\ n.user_id = event.user_ids[i]
                      /\ n.status = "unread"
                      /\ n.type = event.type
                      /\ n.entity_id = event.entity_id
                      /\ n.entity_type = event.entity_type

\* C2: a recipient whose chat-channel flag for the event's type is off still
\* gets the in-app record, and the dispatcher is not invoked for it.
C2_DisabledStillPersisted ==
    \A r \in results :
        (~r.telegramEnabled /\ ~r.settingsErr /\ ~r.userErr /\ ~r.panic) =>
            /\ r.sent = "none"
            /\ \E n \in notifications : n.id = NewUUID(r.msg, r.idx)

\* C6: once a unit has ended, every recipient that follows a recipient whose
\* processing failed has been processed as well.
C6_FailureIsolated ==
    \A m \in DOMAIN units :
        units[m].st # "running" =>
            \A r \in ResultsOf(m) :
                Failed(r) =>
                    \A j \in (r.idx + 1)..Len(Recipients(m)) :
                        \E r2 \in ResultsOf(m) : r2.idx = j

\* C7: the record of a recipient is stored even when its enrichment lookup
\* or its channel dispatch failed.
C7_PersistedDespiteFailure ==
    \A r \in results :
        (~r.panic /\ (r.enrich = "fail" \/ r.sent = "fail")) =>
            \E n \in notifications : n.id = NewUUID(r.msg, r.idx)

\* C10: processing an event never terminates the notifier process.
C10_NeverCrashes == ~crashed

\* the payload of message m is not a JSON object
Poison(m) == Payload(m).json # "object"

\* the step in which the unit of a poison message m ends
PoisonStep(m) ==
    /\ m \in DOMAIN units
    /\ Poison(m)
    /\ units[m].st = "running"
    /\ units'[m].st # "running"

\* C8: a message that cannot be deserialized is logged as an error and
\* skipped: its unit ends as failed without creating a notification, without
\* putting anything on the topic and without moving or stopping the consumer,
\* which can still read the messages that follow.
C8_PoisonSkipped ==
    /\ [][\A m \in 1..MaxLog :
             PoisonStep(m) =>
                 /\ units'[m].st = "failed"
                 /\ <<"Failed to process notification event", m>> \in errorLog'
                 /\ UNCHANGED <<topics, notifications, results, offset, crashed, tasks>>
                 /\ \A k \in DOMAIN units : k # m => units'[k] = units[k]]_vars
    /\ [](\A m \in DOMAIN units :
             Poison(m) =>
                 /\ units[m].st \in {"running", "failed"}
                 /\ units[m].pos = 0
                 /\ ResultsOf(m) = {}
                 /\ RowsOf(m) = {}
                 /\ (units[m].st = "failed" /\ ~crashed
                        /\ offset <= Len(topics[NotificationsTopic]))
                       => ENABLED ConsumerRead)

\* a poison message was skipped and a message after it was processed to the end
C8_Witness ==
    \E m, k \in DOMAIN units :
        /\ m < k
        /\ Poison(m) /\ units[m].st = "failed"
        /\ <<"Failed to process notification event", m>> \in errorLog
        /\ units[k].st = "done"

(***************************************************************************)
(* Notification store and the user operations of NotificationService.      *)
(***************************************************************************)

\* callers of the API, and the ids they pass: every stored id and one unknown
ApiUsers == {"u1", "u2"}
UnknownID == NewUUID(0, 0)
NotificationIds == {n.id : n \in notifications} \cup {UnknownID}

\* which of the I/O calls of an API call fail: the database lookup, the
\* database write, the cache command
StoreFaults == [get : BOOLEAN, write : BOOLEAN, cache : BOOLEAN]
NoStoreFault == [get |-> FALSE, write |-> FALSE, cache |-> FALSE]

\* NotificationRepository.Create: INSERT with the id given; the id column is
\* of type UUID, which "" is not, and user_id references users(id)
NotificationRepoCreate(store, n, ok) ==
    IF ~ok \/ n.id = EmptyID \/ n.user_id \notin Users
    THEN [err |-> TRUE, store |-> store]
    ELSE [err |-> FALSE, store |-> store \cup {n}]

\* NotificationRepository.GetByID: the rows with this id (none: nil, nil)
NotificationGetByID(id) == {n \in notifications : n.id = id}

\* a check that never takes a notification for read
IsReadNever(n) == FALSE

\* Notification.IsRead
IsRead(n) == n.status = "read"

\* NotificationRepository.MarkAsRead: UPDATE ... SET status, read_at WHERE id
NotificationRepoMarkAsRead(store, id, at) ==
    {IF n.id = id THEN [n EXCEPT !.status = "read", !.read_at = at] ELSE n : n \in store}

\* NotificationRepository.MarkAllAsRead: ... WHERE user_id AND status = 'unread'
NotificationRepoMarkAllAsRead(store, userID, at) ==
    {IF n.user_id = userID /\ n.status = "unread"
     THEN [n EXCEPT !.status = "read", !.read_at = at] ELSE n : n \in store}

\* NotificationRepository.Delete: a soft delete
NotificationRepoDelete(store, id) ==
    {IF n.id = id THEN [n EXCEPT !.status = "deleted"] ELSE n : n \in store}

\* NotificationRepository.GetUserUnreadCount
GetUserUnreadCount(store, userID) ==
    Cardinality({n \in store : n.user_id = userID /\ n.status = "unread"})

UnreadCountKey(userID) == <<"unread_count", userID>>
CacheGet(key) == {e \in cache : e.key = key}
CacheDelete(c, key) == {e \in c : e.key # key}
CacheSet(c, key, value) == {e \in c : e.key # key} \cup {[key |-> key, value |-> value]}

\* a service that leaves the cached counter alone
InvalidateNever(c, userID, ok) == c

\* the services' "delete the unread counter from the cache": cacheRepo.Delete
\* of the user's key; an error of the cache is logged as a warning and the
\* call goes on
Invalidate(c, userID, ok) == IF ok THEN CacheDelete(c, UnreadCountKey(userID)) ELSE c
InvalidateWarn(userID, ok) ==
    IF ok THEN {} ELSE {<<"Failed to delete unread count from cache", userID>>}

\* the response to a call on a notification
Response(op, id, userID, err) ==
    [op |-> op, id |-> id, entity |-> Nil, user |-> userID, err |-> err, at |-> now,
     logged |-> {}]

\* an API call that ends with the given response, store, cache and log entries
Return(resp, store, c, entries, f) ==
    /\ now <= MaxCalls
    /\ faults + CountTrue(f) <= MaxFaults
    /\ faults' = faults + CountTrue(f)
    /\ last' = [resp EXCEPT !.logged = entries]
    /\ notifications' = store
    /\ cache' = c
    /\ errorLog' = errorLog \cup entries
    /\ now' = now + 1
    /\ UNCHANGED <<tasks, topics, comments, runs, reads, projects, jobVars, pipeVars>>

\* NotificationService.Create
NotificationCreate(userID, type, entityID, f) ==
    LET n == [id |-> NewUUID(0, now), user_id |-> userID, type |-> type,
              status |-> "unread", entity_id |-> entityID, entity_type |-> "task",
              read_at |-> NullTime]
        created == NotificationRepoCreate(notifications, n, ~f.write)
    IN  IF f.get
        THEN /\ ~f.write /\ ~f.cache
             /\ Return(Response("Create", EmptyID, userID, "ErrUserNotFound"), notifications, cache,
                       {<<"Failed to get user by ID for notification creation", userID>>}, f)
        ELSE IF created.err
        THEN /\ ~f.cache
             /\ Return(Response("Create", EmptyID, userID, "error"), notifications, cache,
                       {<<"Failed to create notification", userID>>}, f)
        ELSE Return(Response("Create", n.id, userID, Nil), created.store,
                    Invalidate(cache, userID, ~f.cache), InvalidateWarn(userID, ~f.cache), f)

\* NotificationService.GetByID
NotificationGet(id, userID, f) ==
    LET found == NotificationGetByID(id)
        notification == CHOOSE n \in found : TRUE
    IN  /\ ~f.write /\ ~f.cache
        /\ IF f.get
           THEN Return(Response("GetByID", id, userID, "ErrNotificationNotFound"),
                       notifications, cache, {<<"Failed to get notification by ID", id>>}, f)
           ELSE IF found = {}
           \* notification.UserID on a nil pointer: the request ends in a panic
           THEN Return(Response("GetByID", id, userID, "panic"), notifications, cache, {}, f)
           ELSE IF notification.user_id # userID
           THEN Return(Response("GetByID", id, userID, "ErrNotificationNotFound"),
                       notifications, cache, {}, f)
           ELSE Return(Response("GetByID", id, userID, Nil), notifications, cache, {}, f)

\* NotificationService.MarkAsRead
MarkAsRead(id, userID, f) ==
    LET found == NotificationGetByID(id)
        notification == CHOOSE n \in found : TRUE
    IN  IF f.get
        THEN /\ ~f.write /\ ~f.cache
             /\ Return(Response("MarkAsRead", id, userID, "ErrNotificationNotFound"),
                       notifications, cache,
                       {<<"Failed to get notification by ID for marking as read", id>>}, f)
        ELSE IF found = {}
        \* notification.UserID on a nil pointer: the request ends in a panic
        THEN /\ f = NoStoreFault
             /\ Return(Response("MarkAsRead", id, userID, "panic"), notifications, cache, {}, f)
        ELSE IF notification.user_id # userID
        THEN /\ f = NoStoreFault
             /\ Return(Response("MarkAsRead", id, userID, "ErrNotificationNotFound"),
                       notifications, cache, {}, f)
        ELSE IF IsRead(notification)
        THEN /\ f = NoStoreFault
             /\ Return(Response("MarkAsRead", id, userID, Nil), notifications, cache, {}, f)
        ELSE IF f.write
        THEN /\ ~f.cache
             /\ Return(Response("MarkAsRead", id, userID, "error"), notifications, cache,
                       {<<"Failed to mark notification as read", id>>}, f)
        ELSE Return(Response("MarkAsRead", id, userID, Nil),
                    NotificationRepoMarkAsRead(notifications, id, now),
                    Invalidate(cache, userID, ~f.cache), InvalidateWarn(userID, ~f.cache), f)

\* NotificationService.MarkAllAsRead
MarkAllAsRead(userID, f) ==
    IF f.write
    THEN /\ ~f.get /\ ~f.cache
         /\ Return(Response("MarkAllAsRead", EmptyID, userID, "error"), notifications, cache,
                   {<<"Failed to mark all notifications as read", userID>>}, f)
    ELSE /\ ~f.get
         /\ Return(Response("MarkAllAsRead", EmptyID, userID, Nil),
                   NotificationRepoMarkAllAsRead(notifications, userID, now),
                   Invalidate(cache, userID, ~f.cache), InvalidateWarn(userID, ~f.cache), f)

\* NotificationService.Delete
NotificationDelete(id, userID, f) ==
    LET found == NotificationGetByID(id)
        notification == CHOOSE n \in found : TRUE
    IN  IF f.get
        THEN /\ ~f.write /\ ~f.cache
             /\ Return(Response("Delete", id, userID, "ErrNotificationNotFound"),
                       notifications, cache,
                       {<<"Failed to get notification by ID for delete", id>>}, f)
        ELSE IF found = {}
        THEN /\ f = NoStoreFault
             /\ Return(Response("Delete", id, userID, "panic"), notifications, cache, {}, f)
        ELSE IF notification.user_id # userID
        THEN /\ f = NoStoreFault
             /\ Return(Response("Delete", id, userID, "ErrNotificationNotFound"),
                       notifications, cache, {}, f)
        ELSE IF f.write
        THEN /\ ~f.cache
             /\ Return(Response("Delete", id, userID, "error"), notifications, cache,
                       {<<"Failed to delete notification", id>>}, f)
        ELSE IF ~IsRead(notification)
        THEN Return(Response("Delete", id, userID, Nil),
                    NotificationRepoDelete(notifications, id),
                    Invalidate(cache, userID, ~f.cache), InvalidateWarn(userID, ~f.cache), f)
        ELSE /\ ~f.cache
             /\ Return(Response("Delete", id, userID, Nil),
                       NotificationRepoDelete(notifications, id), cache, {}, f)

\* NotificationService.GetUnreadCount, up to the database query: the answer
\* comes from the cache when the key is there and the cache answers (the call
\* then ends here); otherwise the unread rows are counted, and the call goes
\* on with that count
GetUnreadCount(userID, f) ==
    LET hit == CacheGet(UnreadCountKey(userID)) # {} /\ ~f.cache IN
    /\ ~f.write
    /\ f.cache => CacheGet(UnreadCountKey(userID)) # {}
    /\ faults + CountTrue(f) <= MaxFaults
    /\ faults' = faults + CountTrue(f)
    /\ IF hit
       THEN /\ ~f.get
            /\ UNCHANGED <<reads, errorLog>>
       ELSE IF f.get
       THEN /\ errorLog' = errorLog \cup {<<"Failed to get unread notification count", userID>>}
            /\ UNCHANGED reads
       ELSE /\ Cardinality(reads) < MaxReads
            /\ reads' = reads \cup
                  {[user |-> userID, count |-> GetUserUnreadCount(notifications, userID)]}
            /\ UNCHANGED errorLog
    /\ UNCHANGED <<tasks, notifications, topics, comments, cache, last, runs, now, projects,
                   jobVars, pipeVars>>

\* NotificationService.GetUnreadCount, from the database query on: the count
\* is written to the cache (an error of the cache is logged as a warning) and
\* returned
GetUnreadCountSet(call, ok) ==
    /\ call \in reads
    /\ faults + (IF ok THEN 0 ELSE 1) <= MaxFaults
    /\ faults' = faults + (IF ok THEN 0 ELSE 1)
    /\ reads' = reads \ {call}
    /\ cache' = IF ok THEN CacheSet(cache, UnreadCountKey(call.user), call.count) ELSE cache
    /\ errorLog' = errorLog \cup LogIf(~ok, <<"Failed to cache unread count", call.user>>)
    /\ UNCHANGED <<tasks, notifications, topics, comments, last, runs, now, projects, jobVars,
                   pipeVars>>

\* what a GetUnreadCount call made now, and not overtaken by another call,
\* returns when no I/O call fails
UnreadCountAnswer(userID) ==
    IF CacheGet(UnreadCountKey(userID)) # {}
    THEN (CHOOSE e \in CacheGet(UnreadCountKey(userID)) : TRUE).value
    ELSE GetUserUnreadCount(notifications, userID)

(***************************************************************************)
(* Scheduler: the overdue check.                                           *)
(***************************************************************************)

Min(a, b) == IF a <= b THEN a ELSE b

\* the rows of a result set in the order the query returns them
RECURSIVE SeqOf(_)
SeqOf(S) ==
    IF S = {} THEN <<>>
    ELSE LET x == CHOOSE y \in S : TRUE IN <<x>> \o SeqOf(S \ {x})

\* "LIMIT %d OFFSET %d" applied to a result set
LimitOffset(rows, limit, skip) ==
    SubSeq(rows, skip + 1, Min(Len(rows), skip + limit))

\* getTaskStatusPtr: of several statuses only the first is kept
getTaskStatusPtr(statuses) == IF Len(statuses) = 0 THEN Nil ELSE statuses[1]

\* a TaskFilter with no field set
TaskFilter ==
    [project_ids |-> {}, status |-> Nil, assignee_id |-> Nil, due_before |-> NullTime,
     due_after |-> NullTime, is_overdue |-> FALSE, limit |-> 0, offset |-> 0]

\* TaskRepository.buildWhereClause for the fields the scheduler sets
TaskMatches(t, filter, at) ==
    /\ filter.project_ids # {} => t.project_id \in filter.project_ids
    /\ filter.status # Nil => t.status = filter.status
    /\ filter.assignee_id # Nil => t.assignee_id = filter.assignee_id
    /\ filter.due_before # NullTime => (t.due_date # NullTime /\ t.due_date <= filter.due_before)
    /\ filter.due_after # NullTime => (t.due_date # NullTime /\ t.due_date >= filter.due_after)
    /\ filter.is_overdue => (t.due_date # NullTime /\ t.due_date < at /\ t.status # "completed")

\* TaskRepository.List
TaskList(filter, at) ==
    LimitOffset(SeqOf({tasks[id] : id \in {i \in DOMAIN tasks : TaskMatches(tasks[i], filter, at)}}),
                filter.limit, filter.offset)

\* TaskRepository.GetOverdueTasks
GetOverdueTasks(filter, at) == TaskList([filter EXCEPT !.is_overdue = TRUE], at)

\* NotificationRepository.GetUserNotifications
GetUserNotifications(store, userID, filter) ==
    LimitOffset(
        SeqOf({n \in store :
                  /\ n.user_id = userID
                  /\ IF filter.status # Nil THEN n.status = filter.status
                     ELSE n.status # "deleted"
                  /\ filter.types # {} => n.type \in filter.types
                  /\ filter.entity_id # Nil => n.entity_id = filter.entity_id
                  /\ filter.entity_type # Nil => n.entity_type = filter.entity_type}),
        filter.limit, filter.offset)

\* KafkaProducer.PublishNotificationEvent: the event goes to the notifications
\* topic under its entity id
PublishNotificationEvent(log, eventType, event, ok) ==
    publishEvent(log, NotificationsTopic, event.entity_id, event, ok)

OverdueNotification(userID, task) ==
    [id |-> EmptyID, user_id |-> userID, type |-> "task_overdue", status |-> "unread",
     entity_id |-> task.id, entity_type |-> "task", read_at |-> NullTime]

\* what a trigger has done so far in one run: the store, the broker log and
\* the projects table as it leaves them, the entries it logged, the entities
\* its loop took up, the settings it consulted, and what it found, created
\* and archived
StartOfRun ==
    [store |-> notifications, log |-> topics, projects |-> projects, entries |-> {},
     batch |-> {}, consulted |-> {}, found |-> {}, created |-> {}, archived |-> {}]

\* a settings lookup of a trigger: the user has a row for the type or not,
\* and what the trigger took the setting to be
Consulted(userID, type, enabled) ==
    [user |-> userID, type |-> type, enabled |-> enabled,
     row |-> HasSettingsRow(userID, type)]

\* the loop over the user's settings in every trigger: the flag starts false
\* and is set by the row of the type
SettingEnabled(userID, type) ==
    \E setting \in GetUserNotificationSettings(userID) :
        /\ setting.notification_type = type
        /\ setting.email_enabled \/ setting.web_enabled

\* checkOverdueTasks: the body of the loop for one listed task; bad holds
\* the tasks whose first database call fails
OverdueStep(task, acc0, bad) ==
    LET acc == [acc0 EXCEPT !.batch = @ \cup {task.id}]
        assignee == task.assignee_id
        pair == <<task.id, assignee>>
        existingNotifications ==
            GetUserNotifications(acc.store, assignee,
                [entity_id |-> task.id, entity_type |-> "task", types |-> {"task_overdue"},
                 status |-> Nil, limit |-> 0, offset |-> 0])
        overdueEnabled == SettingEnabled(assignee, "task_overdue")
        asked == [acc EXCEPT !.consulted =
                     @ \cup {Consulted(assignee, "task_overdue", overdueEnabled)}]
        created == NotificationRepoCreate(acc.store, OverdueNotification(assignee, task), TRUE)
        event == NotificationEvent("task_overdue", <<assignee>>, task.id, "task")
        published == PublishNotificationEvent(acc.log, "notification", event, TRUE)
        forCreator == NotificationRepoCreate(created.store,
                                             OverdueNotification(task.created_by, task), TRUE)
        creatorEvent == [event EXCEPT !.user_ids = <<task.created_by>>]
        afterAssignee == [asked EXCEPT !.store = created.store, !.log = published.log,
                                       !.created = @ \cup {pair}]
    IN  IF assignee = Nil THEN acc
        ELSE IF task.id \in bad
        THEN [acc EXCEPT !.entries =
                 @ \cup {<<"Failed to check existing notifications", task.id>>}]
        ELSE IF Len(existingNotifications) > 0
        THEN [acc EXCEPT !.found = @ \cup {pair}]
        ELSE IF ~overdueEnabled THEN asked
        ELSE IF created.err
        THEN [asked EXCEPT !.entries =
                 @ \cup {<<"Failed to create overdue notification", task.id>>}]
        ELSE IF task.created_by = assignee THEN afterAssignee
        ELSE IF forCreator.err
        THEN [afterAssignee EXCEPT !.entries =
                 @ \cup {<<"Failed to create creator overdue notification", task.id>>}]
        ELSE [afterAssignee EXCEPT
                 !.store = forCreator.store,
                 !.log = PublishNotificationEvent(published.log, "notification",
                                                  creatorEvent, TRUE).log,
                 !.created = @ \cup {<<task.id, task.created_by>>}]

RECURSIVE OverdueLoop(_, _, _)
OverdueLoop(listed, acc, bad) ==
    IF listed = <<>> THEN acc
    ELSE OverdueLoop(Tail(listed), OverdueStep(Head(listed), acc, bad), bad)

\* the ids of the rows of a result set
Ids(listed) == {listed[i].id : i \in DOMAIN listed}

\* one run of a cron trigger ends: its effects reach the store, the broker
\* and the log; listFails: the trigger's list query failed, bad: the listed
\* entities whose first database call failed
RunEnds(trigger, listFails, listed, entities, bad, end) ==
    /\ now <= MaxCalls
    /\ bad \subseteq (IF listFails THEN {} ELSE entities)
    /\ faults + (IF listFails THEN 1 ELSE 0) + Cardinality(bad) <= MaxFaults
    /\ faults' = faults + (IF listFails THEN 1 ELSE 0) + Cardinality(bad)
    /\ notifications' = end.store
    /\ topics' = end.log
    /\ projects' = end.projects
    /\ errorLog' = errorLog \cup end.entries
    /\ runs' = Append(runs, [trigger |-> trigger, at |-> now, ended |-> now, err |-> listFails,
                             listed |-> IF listFails THEN 0 ELSE Len(listed),
                             batch |-> end.batch, consulted |-> end.consulted,
                             found |-> end.found, created |-> end.created,
                             archived |-> end.archived])
    /\ now' = now + 1
    /\ UNCHANGED <<tasks, comments, cache, last, reads, jobVars, pipeVars>>

\* checkOverdueTasks: one run of the cron trigger
CheckOverdueTasks(listFails, bad) ==
    LET filter == [TaskFilter EXCEPT
                      !.status = getTaskStatusPtr(<<"new", "in_progress", "on_hold">>),
                      !.due_before = now]
        listed == GetOverdueTasks(filter, now)
        end == IF listFails
               THEN [StartOfRun EXCEPT !.entries = {<<"Failed to get overdue tasks", now>>}]
               ELSE OverdueLoop(listed, StartOfRun, bad)
    IN  RunEnds("checkOverdueTasks", listFails, listed,
                {t \in Ids(listed) : tasks[t].assignee_id # Nil}, bad, end)

(***************************************************************************)
(* Scheduler: daily digest, deadline reminders, project archival.          *)
(***************************************************************************)

\* UserRepository.List: every user of the model is active
UserList(filter) ==
    LimitOffset(SeqOf({[id |-> u, is_active |-> TRUE] : u \in Users}),
                filter.limit, filter.offset)

\* TaskRepository.GetTasksByAssignee
GetTasksByAssignee(userID, filter, at) == TaskList([filter EXCEPT !.assignee_id = userID], at)

\* TaskRepository.GetTasksByProject
GetTasksByProject(projectID, filter, at) ==
    TaskList([filter EXCEPT !.project_ids = @ \cup {projectID}], at)

\* TaskRepository.GetUpcomingTasks
GetUpcomingTasks(daysThreshold, filter, at) ==
    TaskList([filter EXCEPT !.due_after = at, !.due_before = at + daysThreshold * Day], at)

\* a project listing without LIMIT
ProjectListUnlimited(filter) ==
    SeqOf({projects[id] : id \in
              {i \in DOMAIN projects : filter.status # Nil => projects[i].status = filter.status}})

\* ProjectRepository.List
ProjectList(filter) ==
    LimitOffset(
        SeqOf({projects[id] : id \in
                  {i \in DOMAIN projects :
                      filter.status # Nil => projects[i].status = filter.status}}),
        filter.limit, filter.offset)

\* ProjectRepository.Update: every column of the row is set from the struct
\* passed, and updated_at is the time of the write
ProjectRepoUpdate(table, project, at) ==
    [table EXCEPT ![project.id] = [project EXCEPT !.updated_at = at]]

\* ProjectRepository.GetMembers
GetMembers(projectID) == SeqOf({m \in ProjectMembers : m.project_id = projectID})

\* the notification a trigger builds: it sets no id
SchedulerNotification(userID, type, entityID, entityType) ==
    [id |-> EmptyID, user_id |-> userID, type |-> type, status |-> "unread",
     entity_id |-> entityID, entity_type |-> entityType, read_at |-> NullTime]

\* the trigger stores a notification and publishes its event; a failed
\* store is logged and nothing is published
CreateAndPublish(acc, n, failure) ==
    LET created == NotificationRepoCreate(acc.store, n, TRUE)
        event == NotificationEvent(n.type, <<n.user_id>>, n.entity_id, n.entity_type)
    IN  IF created.err
        THEN [acc EXCEPT !.entries = @ \cup {failure}]
        ELSE [acc EXCEPT !.store = created.store,
                         !.log = PublishNotificationEvent(acc.log, "notification",
                                                          event, TRUE).log,
                         !.created = @ \cup {<<n.entity_id, n.user_id>>}]

\* sendDailyDigests: the body of the loop for one listed user
DigestStep(user, acc0, bad, at) ==
    LET acc == [acc0 EXCEPT !.batch = @ \cup {user.id}]
        digestEnabled == SettingEnabled(user.id, "digest")
        asked == [acc EXCEPT !.consulted = @ \cup {Consulted(user.id, "digest", digestEnabled)}]
        today == (at \div Day) * Day
        userTasks == GetTasksByAssignee(user.id,
                         [TaskFilter EXCEPT !.assignee_id = user.id, !.due_after = today], at)
    IN  IF user.id \in bad
        THEN [acc EXCEPT !.entries = @ \cup {<<"Failed to get notification settings", user.id>>}]
        ELSE IF ~digestEnabled THEN asked
        ELSE IF Len(userTasks) = 0 THEN asked
        ELSE CreateAndPublish(asked,
                 SchedulerNotification(user.id, "digest", user.id, "digest"),
                 <<"Failed to create digest notification", user.id>>)

RECURSIVE DigestLoop(_, _, _, _)
DigestLoop(users, acc, bad, at) ==
    IF users = <<>> THEN acc
    ELSE DigestLoop(Tail(users), DigestStep(Head(users), acc, bad, at), bad, at)

\* a digest trigger that lists without LIMIT, whose rows get an id from the
\* database, and that does not look at the user's tasks
SendDailyDigestsToAll(listFails, bad) ==
    LET enabled == {u \in Users : SettingEnabled(u, "digest")}
        rows == {[SchedulerNotification(u, "digest", u, "digest")
                     EXCEPT !.id = <<"row", now, u>>] : u \in enabled}
        end == IF listFails
               THEN [StartOfRun EXCEPT
                        !.entries = {<<"Failed to get users for daily digest", now>>}]
               ELSE [StartOfRun EXCEPT !.store = @ \cup rows, !.batch = Users,
                                       !.created = {<<u, u>> : u \in enabled}]
    IN  RunEnds("sendDailyDigests", listFails, <<>>, {}, bad, end)

\* sendDailyDigests: one run of the cron trigger
SendDailyDigests(listFails, bad) ==
    LET users == UserList([is_active |-> TRUE, limit |-> 0, offset |-> 0])
        end == IF listFails
               THEN [StartOfRun EXCEPT
                        !.entries = {<<"Failed to get users for daily digest", now>>}]
               ELSE DigestLoop(users, StartOfRun, bad, now)
    IN  RunEnds("sendDailyDigests", listFails, users, Ids(users), bad, end)

\* sendDeadlineReminders: the inner loop over the tasks of one assignee
RECURSIVE DueSoonLoop(_, _, _)
DueSoonLoop(assigneeTasks, assigneeID, acc) ==
    IF assigneeTasks = <<>> THEN acc
    ELSE DueSoonLoop(Tail(assigneeTasks), assigneeID,
             CreateAndPublish(acc,
                 SchedulerNotification(assigneeID, "task_due_soon",
                                       Head(assigneeTasks).id, "task"),
                 <<"Failed to create deadline notification", Head(assigneeTasks).id>>))

\* sendDeadlineReminders: the body of the loop for one assignee
ReminderStep(assigneeID, listed, acc, bad) ==
    LET dueSoonEnabled == SettingEnabled(assigneeID, "task_due_soon")
        asked == [acc EXCEPT !.consulted =
                     @ \cup {Consulted(assigneeID, "task_due_soon", dueSoonEnabled)}]
        IsHis(t) == t.assignee_id = assigneeID
    IN  IF assigneeID \in bad
        THEN [acc EXCEPT !.entries =
                 @ \cup {<<"Failed to get notification settings", assigneeID>>}]
        ELSE IF ~dueSoonEnabled THEN asked
        ELSE DueSoonLoop(SelectSeq(listed, IsHis), assigneeID, asked)

RECURSIVE ReminderLoop(_, _, _, _)
ReminderLoop(assignees, listed, acc, bad) ==
    IF assignees = <<>> THEN acc
    ELSE ReminderLoop(Tail(assignees), listed,
                      ReminderStep(Head(assignees), listed, acc, bad), bad)

\* a reminder trigger that lists without LIMIT and whose rows get an id from
\* the database
SendDeadlineRemindersStoring(listFails, bad) ==
    LET due == {t \in DOMAIN tasks :
                   /\ tasks[t].due_date # NullTime
                   /\ tasks[t].due_date >= now /\ tasks[t].due_date <= now + Day
                   /\ tasks[t].status = "new" /\ tasks[t].assignee_id # Nil
                   /\ SettingEnabled(tasks[t].assignee_id, "task_due_soon")}
        rows == {[SchedulerNotification(tasks[t].assignee_id, "task_due_soon", t, "task")
                     EXCEPT !.id = <<"row", now, t>>] : t \in due}
        end == IF listFails
               THEN [StartOfRun EXCEPT !.entries = {<<"Failed to get upcoming tasks", now>>}]
               ELSE [StartOfRun EXCEPT !.store = @ \cup rows, !.batch = due,
                                       !.created = {<<t, tasks[t].assignee_id>> : t \in due}]
    IN  RunEnds("sendDeadlineReminders", listFails, <<>>, {}, bad, end)

\* sendDeadlineReminders: one run of the cron trigger; the listed tasks that
\* have an assignee are grouped by assignee
SendDeadlineReminders(listFails, bad) ==
    LET filter == [TaskFilter EXCEPT
                      !.due_before = now + Day, !.due_after = now,
                      !.status = getTaskStatusPtr(<<"new", "in_progress", "on_hold">>)]
        listed == GetUpcomingTasks(1, filter, now)
        grouped == {i \in DOMAIN listed : listed[i].assignee_id # Nil}
        tasksByAssignee == {listed[i].assignee_id : i \in grouped}
        start == [StartOfRun EXCEPT !.batch = {listed[i].id : i \in grouped}]
        end == IF listFails
               THEN [StartOfRun EXCEPT !.entries = {<<"Failed to get upcoming tasks", now>>}]
               ELSE ReminderLoop(SeqOf(tasksByAssignee), listed, start, bad)
    IN  RunEnds("sendDeadlineReminders", listFails, listed, tasksByAssignee, bad, end)

\* archiveCompletedProjects: the loop over the members of an archived project
RECURSIVE MemberLoop(_, _, _)
MemberLoop(members, project, acc) ==
    IF members = <<>> THEN acc
    ELSE MemberLoop(Tail(members), project,
             CreateAndPublish(acc,
                 SchedulerNotification(Head(members).user_id, "project_updated",
                                       project.id, "project"),
                 <<"Failed to create archive notification", Head(members).user_id>>))

\* archiveCompletedProjects: the body of the loop for one listed project
ArchiveStep(project, acc0, bad, at) ==
    LET acc == [acc0 EXCEPT !.batch = @ \cup {project.id}]
        weekAgo == at - Week
        projectTasks == GetTasksByProject(project.id,
                            [TaskFilter EXCEPT !.project_ids = {project.id}], at)
        allCompleted == \A i \in DOMAIN projectTasks :
                            projectTasks[i].status \in {"completed", "cancelled"}
        updated == [acc EXCEPT
                       !.projects = ProjectRepoUpdate(@, [project EXCEPT !.status = "archived"],
                                                      at),
                       !.archived = @ \cup {project.id}]
    IN  IF project.updated_at > weekAgo THEN acc
        ELSE IF project.id \in bad
        THEN [acc EXCEPT !.entries = @ \cup {<<"Failed to get project tasks", project.id>>}]
        ELSE IF ~allCompleted THEN acc
        ELSE MemberLoop(GetMembers(project.id), project, updated)

RECURSIVE ArchiveLoop(_, _, _, _)
ArchiveLoop(listed, acc, bad, at) ==
    IF listed = <<>> THEN acc
    ELSE ArchiveLoop(Tail(listed), ArchiveStep(Head(listed), acc, bad, at), bad, at)

\* archiveCompletedProjects: one run of the cron trigger
ArchiveCompletedProjects(listFails, bad) ==
    LET listed == ProjectList([status |-> "completed", limit |-> 0, offset |-> 0])
        end == IF listFails
               THEN [StartOfRun EXCEPT !.entries = {<<"Failed to get completed projects", now>>}]
               ELSE ArchiveLoop(listed, StartOfRun, bad, now)
    IN  RunEnds("archiveCompletedProjects", listFails, listed,
                {listed[i].id : i \in {j \in DOMAIN listed :
                                          listed[j].updated_at <= now - Week}}, bad, end)

\* the four cron triggers over tasks, projects and settings that do not change
NextSched ==
    \/ \E listFails \in BOOLEAN, bad \in SUBSET Users : SendDailyDigests(listFails, bad)
    \/ \E listFails \in BOOLEAN, bad \in SUBSET Users : SendDeadlineReminders(listFails, bad)
    \/ \E listFails \in BOOLEAN, bad \in SUBSET DOMAIN tasks :
          CheckOverdueTasks(listFails, bad)
    \/ \E listFails \in BOOLEAN, bad \in SUBSET Projects :
          ArchiveCompletedProjects(listFails, bad)

SpecSched == Init /\ [][NextSched]_vars

(***************************************************************************)
(* Scheduler runs that overlap, next to users who change projects.         *)
(***************************************************************************)

\* cron starts every run of a job in a goroutine of its own, whether or not
\* the run before has returned: a run in progress has made its list query
\* and has not yet gone through its loop
Job(trigger, listed) == [trigger |-> trigger, at |-> now, listed |-> listed]

JobStarts(job) ==
    /\ now <= MaxCalls
    /\ Cardinality(jobs) < MaxOps
    /\ jobs' = jobs \cup {job}
    /\ now' = now + 1
    /\ UNCHANGED <<tasks, notifications, topics, errorLog, faults, comments, cache, last, runs,
                   reads, projects, writerTopic, calls, pipeVars>>

\* the run returns: what its loop did reaches the store, the broker and the
\* log
JobEnds(job, end) ==
    /\ job \in jobs
    /\ jobs' = jobs \ {job}
    /\ notifications' = end.store
    /\ topics' = end.log
    /\ projects' = end.projects
    /\ errorLog' = errorLog \cup end.entries
    /\ runs' = Append(runs, [trigger |-> job.trigger, at |-> job.at, ended |-> now,
                             err |-> FALSE,
                             listed |-> Len(job.listed), batch |-> end.batch,
                             consulted |-> end.consulted, found |-> end.found,
                             created |-> end.created, archived |-> end.archived])
    /\ UNCHANGED <<tasks, faults, comments, cache, last, now, reads, writerTopic, calls,
                   pipeVars>>

\* checkOverdueTasks up to the return of GetOverdueTasks; a failed list
\* query ends the run at once
OverdueStarts(listFails) ==
    IF listFails THEN CheckOverdueTasks(TRUE, {})
    ELSE JobStarts(Job("checkOverdueTasks",
             GetOverdueTasks([TaskFilter EXCEPT
                 !.status = getTaskStatusPtr(<<"new", "in_progress", "on_hold">>),
                 !.due_before = now], now)))

\* an overdue check that stores a notification for the assignee of every
\* past-due task, whatever the store holds
OverdueEndsStoring(at) ==
    \E job \in jobs :
        /\ job.trigger = "checkOverdueTasks" /\ job.at = at
        /\ LET due == {t \in DOMAIN tasks :
                          /\ tasks[t].due_date # NullTime /\ tasks[t].due_date < at
                          /\ tasks[t].status \notin {"completed", "cancelled"}
                          /\ tasks[t].assignee_id # Nil}
           IN  JobEnds(job, [StartOfRun EXCEPT
                   !.store = @ \cup {[OverdueNotification(tasks[t].assignee_id, tasks[t])
                                         EXCEPT !.id = NewUUID(0, <<at, t>>)] : t \in due},
                   !.batch = due,
                   !.created = {<<t, tasks[t].assignee_id>> : t \in due}])

\* checkOverdueTasks from the loop over the listed tasks to the return
OverdueEnds(at) ==
    \E job \in jobs :
        /\ job.trigger = "checkOverdueTasks" /\ job.at = at
        /\ JobEnds(job, OverdueLoop(job.listed, StartOfRun, {}))

\* archiveCompletedProjects up to the return of projectRepo.List
ArchiveStarts(listFails) ==
    IF listFails THEN ArchiveCompletedProjects(TRUE, {})
    ELSE JobStarts(Job("archiveCompletedProjects",
                       ProjectList([status |-> "completed", limit |-> 0, offset |-> 0])))

\* archiveCompletedProjects from `now := time.Now()` to the return: the loop
\* works on the rows the list query returned
ArchiveEnds(at) ==
    \E job \in jobs :
        /\ job.trigger = "archiveCompletedProjects" /\ job.at = at
        /\ JobEnds(job, ArchiveLoop(job.listed, StartOfRun, {}, now))

\* ProjectService.canManageProject: no user of the model is an administrator
canManageProject(projectID, userID) ==
    \E member \in ProjectMembers :
        /\ member.project_id = projectID /\ member.user_id = userID
        /\ member.role \in {"owner", "manager"}

\* KafkaProducer.PublishProjectEvent: the event goes to the projects topic
\* under the id of the project
PublishProjectEvent(log, eventType, event, ok) ==
    publishEvent(log, "projects", event.id, event, ok)

ProjectNames == {"alpha", "delta"}

\* ProjectService.Update with a request that sets the name
ProjectUpdate(id, name, userID, dbFails) ==
    LET project == [projects[id] EXCEPT !.name = name]
        event == [id |-> id, name |-> name, status |-> project.status,
                  type |-> "project_updated"]
        resp == [op |-> "ProjectUpdate", id |-> EmptyID, entity |-> id, user |-> userID,
                 err |-> Nil, at |-> now, logged |-> {}]
        ends(err, entries) ==
            /\ last' = [resp EXCEPT !.err = err, !.logged = entries]
            /\ errorLog' = errorLog \cup entries
            /\ now' = now + 1
    IN  /\ now <= MaxCalls
        /\ dbFails => faults < MaxFaults
        /\ IF ~canManageProject(id, userID)
           THEN /\ ~dbFails
                /\ ends("ErrInsufficientRights", {})
                /\ UNCHANGED <<projects, cache, topics, faults>>
           ELSE IF dbFails
           THEN /\ ends("error", {<<"Failed to update project", id>>})
                /\ faults' = faults + 1
                /\ UNCHANGED <<projects, cache, topics>>
           ELSE /\ ends(Nil, {})
                /\ projects' = ProjectRepoUpdate(projects, project, now)
                /\ cache' = CacheDelete(cache, <<"project", id>>)
                /\ topics' = PublishProjectEvent(topics, "project_updated", event, TRUE).log
                /\ UNCHANGED faults
        /\ UNCHANGED <<tasks, notifications, comments, runs, reads, jobVars, pipeVars>>

\* overdue checks and archival runs that overlap, and users renaming projects
NextJobs ==
    \/ \E listFails \in BOOLEAN : OverdueStarts(listFails)
    \/ \E at \in 1..MaxCalls : OverdueEnds(at)
    \/ \E listFails \in BOOLEAN : ArchiveStarts(listFails)
    \/ \E at \in 1..MaxCalls : ArchiveEnds(at)
    \/ \E id \in Projects, name \in ProjectNames, u \in {"u1", "u2"}, dbFails \in BOOLEAN :
          ProjectUpdate(id, name, u, dbFails)

SpecJobs == Init /\ [][NextJobs]_vars

\* the notification store under the API calls that change it and the
\* overdue check, with a cache that answers
DatabaseFaults == {f \in StoreFaults : ~f.cache}

NextStore ==
    \/ \E u \in ApiUsers, f \in DatabaseFaults : NotificationCreate(u, "task_assigned", "t1", f)
    \/ \E id \in NotificationIds, u \in ApiUsers, f \in DatabaseFaults : NotificationGet(id, u, f)
    \/ \E id \in NotificationIds, u \in ApiUsers, f \in DatabaseFaults : MarkAsRead(id, u, f)
    \/ \E u \in ApiUsers, f \in DatabaseFaults : MarkAllAsRead(u, f)
    \/ \E id \in NotificationIds, u \in ApiUsers, f \in DatabaseFaults :
          NotificationDelete(id, u, f)
    \/ \E listFails \in BOOLEAN, bad \in SUBSET DOMAIN tasks :
          CheckOverdueTasks(listFails, bad)

SpecStore == Init /\ [][NextStore]_vars

\* overdue notifications of task t1 under the user operations and the
\* overdue check
NextOverdue ==
    \/ \E u \in ApiUsers, f \in DatabaseFaults : NotificationCreate(u, "task_overdue", "t1", f)
    \/ \E id \in NotificationIds, u \in ApiUsers, f \in DatabaseFaults :
          NotificationDelete(id, u, f)
    \/ \E listFails \in BOOLEAN, bad \in SUBSET DOMAIN tasks :
          CheckOverdueTasks(listFails, bad)

SpecOverdue == Init /\ [][NextOverdue]_vars

\* one user's notifications and unread counter under concurrent API calls
CacheUsers == {"u1"}

NextCache ==
    \/ \E u \in CacheUsers, f \in StoreFaults : NotificationCreate(u, "task_assigned", "t1", f)
    \/ \E id \in NotificationIds, u \in CacheUsers, f \in StoreFaults : MarkAsRead(id, u, f)
    \/ \E u \in CacheUsers, f \in StoreFaults : MarkAllAsRead(u, f)
    \/ \E id \in NotificationIds, u \in CacheUsers, f \in StoreFaults :
          NotificationDelete(id, u, f)
    \/ \E u \in CacheUsers, f \in StoreFaults : GetUnreadCount(u, f)
    \/ \E call \in reads, ok \in BOOLEAN : GetUnreadCountSet(call, ok)

SpecCache == Init /\ [][NextCache]_vars

\* the partition key message m was published under
KeyOf(m) == topics[NotificationsTopic][m].key

\* the step applies notification effects (dispatch, persist) of message m
AppliesEffectsOf(m) == {r \in results' : r.msg = m} # {r \in results : r.msg = m}

\* C19: the effects of a message are applied only when every message
\* published before it under the same entity id has had all of its effects
\* applied: no earlier event with the same key is still being processed.
C19_SameKeyInPublishOrder ==
    [][\A m \in DOMAIN units :
          AppliesEffectsOf(m) =>
              \A k \in 1..(m - 1) :
                  (KeyOf(k) = KeyOf(m) /\ ~Poison(k)) => units[k].st # "running"]_vars

\* C22: for every recipient the processor has handled, the dispatcher was
\* invoked (the send succeeded or failed) only if the recipient's record has
\* been stored.
C22_DispatchAfterPersist ==
    \A r \in results : r.sent # "none" => r.saved

\* a call of ReadMessage by the poll loop: a message is handed over, a
\* goroutine is started for it, or the failure of the call is logged
ReadCall ==
    \/ offset' > offset
    \/ Len(units') > Len(units)
    \/ \E line \in errorLog' \ errorLog : line[1] = "Failed to read message from Kafka"

\* C23: once the shutdown signal has been received the poll loop has
\* stopped: as long as the process lives on, it makes no further read from
\* the log and starts no new processing unit.
C23_ShutdownStopsPollLoop ==
    [][(stopped /\ ~crashed /\ stopped' /\ ~crashed') => ~ReadCall]_vars

\* C24: offsets are committed whatever the goroutines have done, and a
\* restart resumes after the committed offset: no message at or below the
\* committed offset is handed to the poll loop again, so a message whose
\* processing was cut off by a crash after its commit stays unprocessed.
C24_CommittedNeverRedelivered ==
    [][/\ Len(units') > Len(units) => Len(units') > committed
       /\ \A m \in DOMAIN units :
              units[m].st = "lost" =>
                  /\ m \in DOMAIN units' /\ units'[m] = units[m]
                  /\ {r \in results' : r.msg = m} = {r \in results : r.msg = m}]_vars

\* a message was committed, the process crashed before its goroutine came to
\* an end, the process is up again with nothing left to read, and neither a
\* result nor a notification of the message exists
C24_Witness ==
    /\ ~crashed
    /\ offset > Len(topics[NotificationsTopic])
    /\ \E m \in DOMAIN units :
           /\ units[m].st = "lost"
           /\ m <= committed
           /\ \A r \in results : r.msg # m
           /\ \A n \in notifications : n.id # NewUUID(m, 1)

(***************************************************************************)
(* Properties of the notification store and of the overdue check.          *)
(***************************************************************************)

\* the (task, assignee) pairs the overdue check is about at time at: the task
\* is past due and neither completed nor cancelled, and its assignee has
\* overdue notifications enabled
OverduePairs(at) ==
    {<<tasks[id].id, tasks[id].assignee_id>> : id \in
        {i \in DOMAIN tasks :
            /\ tasks[i].due_date # NullTime /\ tasks[i].due_date < at
            /\ tasks[i].status \notin {"completed", "cancelled"}
            /\ tasks[i].assignee_id # Nil
            /\ \E setting \in GetUserNotificationSettings(tasks[i].assignee_id) :
                  /\ setting.notification_type = "task_overdue"
                  /\ setting.email_enabled \/ setting.web_enabled}}

OverdueRows(pair) ==
    {n \in notifications : /\ n.type = "task_overdue" /\ n.entity_type = "task"
                           /\ n.entity_id = pair[1] /\ n.user_id = pair[2]}

\* C3: after two overdue-check runs in succession, neither hit by an I/O
\* failure, every overdue (task, assignee) pair has at most one overdue
\* notification: the first run created it, the second run found it and
\* created none.
C3_SecondRunFindsFirst ==
    (Len(runs) >= 2 /\ ~runs[1].err /\ ~runs[2].err /\ runs[2].at = runs[1].at + 1) =>
        \A pair \in OverduePairs(runs[1].at) :
            /\ Cardinality(OverdueRows(pair)) <= 1
            /\ pair \in runs[1].created
            /\ pair \in runs[2].found
            /\ pair \notin runs[2].created

\* the step is a MarkAsRead call that ends now
MarkAsReadReturns == last'.at = now /\ last'.op = "MarkAsRead"

\* C4: a MarkAsRead call of the owner on an unread notification sets status
\* read and read_at to the time of the call; a MarkAsRead call of the owner on
\* a notification that is already read succeeds (unless its database lookup
\* fails, which is logged) and changes nothing in the store, so status stays
\* read and read_at keeps the time of the first call.
C4_MarkAsReadIdempotent ==
    [][MarkAsReadReturns =>
          \A n \in notifications :
              (n.id = last'.id /\ n.user_id = last'.user) =>
                  /\ (n.status = "unread" /\ last'.err = Nil) =>
                        notifications' = (notifications \ {n}) \cup
                            {[n EXCEPT !.status = "read", !.read_at = now]}
                  /\ n.status = "read" =>
                        /\ last'.logged = {} => last'.err = Nil
                        /\ notifications' = notifications]_vars

\* the owner's second MarkAsRead has returned: the notification was read at
\* an earlier time than this call
C4_Witness ==
    /\ last.op = "MarkAsRead" /\ last.err = Nil
    /\ \E n \in notifications :
          /\ n.id = last.id /\ n.user_id = last.user
          /\ n.status = "read"
          /\ n.read_at # NullTime /\ n.read_at < last.at

C12_QuiescentCountIsFresh ==
    (reads = {} /\ faults = 0) =>
        \A u \in CacheUsers : UnreadCountAnswer(u) = GetUserUnreadCount(notifications, u)

\* C26: no step changes the status of a notification that is deleted.
C26_DeletedIsTerminal ==
    [][\A n \in notifications :
          n.status = "deleted" =>
              \A after \in notifications' : after.id = n.id => after.status = "deleted"]_vars

\* the step is a GetByID, MarkAsRead or Delete call that ends now without a
\* failure of the database or the cache, for an id that no row has or whose
\* row belongs to another user
ForeignOrUnknown ==
    /\ last'.at = now /\ last'.op \in {"GetByID", "MarkAsRead", "Delete"}
    /\ last'.logged = {}
    /\ \A n \in notifications : n.id = last'.id => n.user_id # last'.user

\* C27: a GetByID, MarkAsRead or Delete call with an id that does not exist
\* or belongs to another user returns ErrNotificationNotFound and changes
\* neither the store nor the cache.
C27_NotFoundLeavesNoTrace ==
    [][ForeignOrUnknown =>
          /\ last'.err = "ErrNotificationNotFound"
          /\ UNCHANGED <<notifications, cache>>]_vars

(***************************************************************************)
(* Properties of the cron triggers.                                        *)
(***************************************************************************)

\* the tasks with an assignee, neither completed nor cancelled, that are
\* past due at time at
PastDueTasks(at) ==
    {t \in DOMAIN tasks :
        /\ tasks[t].due_date # NullTime /\ tasks[t].due_date < at
        /\ tasks[t].status \notin {"completed", "cancelled"}
        /\ tasks[t].assignee_id # Nil}

\* the tasks with an assignee, neither completed nor cancelled, that are due
\* within the 24 hours after time at
DueSoonTasks(at) ==
    {t \in DOMAIN tasks :
        /\ tasks[t].due_date # NullTime
        /\ tasks[t].due_date >= at /\ tasks[t].due_date <= at + Day
        /\ tasks[t].status \notin {"completed", "cancelled"}
        /\ tasks[t].assignee_id # Nil}

\* run k of the triggers is a run of this trigger whose list query succeeded
RunOf(k, trigger) == runs[k].trigger = trigger /\ ~runs[k].err

\* C13: every run of the deadline-reminder trigger takes up every task that
\* is due within the next 24 hours, has an assignee and is neither completed
\* nor cancelled; every run of the overdue check takes up every such task
\* that is past due.
C13_EveryDueTaskHandled ==
    \A k \in DOMAIN runs :
        /\ RunOf(k, "sendDeadlineReminders") => DueSoonTasks(runs[k].at) \subseteq runs[k].batch
        /\ RunOf(k, "checkOverdueTasks") => PastDueTasks(runs[k].at) \subseteq runs[k].batch

\* C14: once the overdue check has run, the creator of a past-due task who
\* is not its assignee has exactly one overdue notification for the task,
\* however many runs there were.
C14_CreatorNotifiedOnce ==
    \A k \in DOMAIN runs :
        RunOf(k, "checkOverdueTasks") =>
            \A t \in PastDueTasks(runs[k].at) :
                tasks[t].created_by # tasks[t].assignee_id =>
                    Cardinality(OverdueRows(<<t, tasks[t].created_by>>)) = 1

\* runs k - 1 and k are two runs of the same trigger in succession, and the
\* list query of neither failed
TwiceInSuccession(k, trigger) ==
    /\ k - 1 \in DOMAIN runs /\ k \in DOMAIN runs
    /\ RunOf(k - 1, trigger) /\ RunOf(k, trigger)
    /\ runs[k].at = runs[k - 1].at + 1

QualifyingTasks(u, at) ==
    {t \in DOMAIN tasks :
        /\ tasks[t].assignee_id = u
        /\ tasks[t].due_date # NullTime /\ tasks[t].due_date >= (at \div Day) * Day}

\* the step is a run of the daily digest
DigestRuns ==
    /\ Len(runs') = Len(runs) + 1
    /\ runs'[Len(runs')].trigger = "sendDailyDigests"

\* the events the step puts on the notifications topic
NewEvents ==
    {topics'[NotificationsTopic][i].value.fields :
        i \in (Len(topics[NotificationsTopic]) + 1)..Len(topics'[NotificationsTopic])}

OverdueCheckRuns ==
    /\ Len(runs') = Len(runs) + 1
    /\ runs'[Len(runs')].trigger = "checkOverdueTasks" /\ ~runs'[Len(runs')].err

\* C25: when the overdue check runs while a (task, user) pair is overdue and
\* the user's overdue notification for the task is soft-deleted, the run finds
\* that notification and creates no new one for the pair.
C25_DeletedStillCounts ==
    [][OverdueCheckRuns =>
          \A pair \in OverduePairs(now) :
              (\E n \in OverdueRows(pair) : n.status = "deleted") =>
                  /\ pair \in runs'[Len(runs')].found
                  /\ pair \notin runs'[Len(runs')].created
                  /\ {n \in notifications' : n.entity_id = pair[1] /\ n.user_id = pair[2]}
                        = {n \in notifications : n.entity_id = pair[1] /\ n.user_id = pair[2]}]_vars

\* the tasks of a project that are neither completed nor cancelled
UnfinishedTasks(p) ==
    {t \in DOMAIN tasks :
        tasks[t].project_id = p /\ tasks[t].status \notin {"completed", "cancelled"}}

ArchivalRunEnds ==
    /\ Len(runs') = Len(runs) + 1
    /\ runs'[Len(runs')].trigger = "archiveCompletedProjects" /\ ~runs'[Len(runs')].err

TaskIds == <<"t4", "t5", "t6", "t7", "t8">>
CommentIds == <<"c1", "c2", "c3", "c4", "c5">>
NewTaskID(at) == TaskIds[at]
NewCommentID(at) == CommentIds[at]

\* which I/O calls of a domain operation fail: the write of the row, the
\* lookup of the acting user, the publish of the domain event, the publish
\* of the notification event
DomainFaults == [persist : BOOLEAN, user : BOOLEAN, publish : BOOLEAN, notify : BOOLEAN]

\* ProjectService.hasAccessToProject: an administrator has access; anybody
\* else has it when GetMember returns no error, and GetMember returns
\* (nil, nil) for a user who is not a member
hasAccessToProject(projectID, userID) == TRUE

\* KafkaProducer.PublishTaskEvent / PublishCommentEvent: the event goes to
\* the topic of its kind under the id of its entity
PublishTaskEvent(log, eventType, event, ok) ==
    publishEvent(log, "tasks", event.id, event, ok)
PublishCommentEvent(log, eventType, event, ok) ==
    publishEvent(log, "comments", event.comment_id, event, ok)

\* the response to a call on a task or a comment
DomainResponse(op, entity, userID, err) ==
    [op |-> op, id |-> EmptyID, entity |-> entity, user |-> userID, err |-> err, at |-> now,
     logged |-> {}]

\* a domain operation that ends with the given response, tables, broker log
\* and log entries
DomainReturn(resp, taskRows, commentRows, log, entries, f) ==
    /\ now <= MaxOps
    /\ faults + CountTrue(f) <= MaxFaults
    /\ faults' = faults + CountTrue(f)
    /\ last' = [resp EXCEPT !.logged = entries]
    /\ tasks' = taskRows
    /\ comments' = commentRows
    /\ topics' = log
    /\ errorLog' = errorLog \cup entries
    /\ now' = now + 1
    /\ UNCHANGED <<notifications, cache, runs, reads, projects, jobVars, pipeVars>>

\* TaskService.notifyTaskAssigned: [log, entries] after the call
notifyTaskAssigned(log, task, assignerID, ok) ==
    IF task.assignee_id = Nil THEN [log |-> log, entries |-> {}]
    ELSE LET notificationEvent ==
                 NotificationEvent("task_assigned", <<task.assignee_id>>, task.id, "task")
             published == PublishNotificationEvent(log, "notification", notificationEvent, ok)
         IN  [log |-> published.log,
              entries |-> LogIf(published.err, <<"Failed to publish notification event", task.id>>)]

\* a task creation that gives up, and returns the error, when the publish fails
TaskCreateStrict(userID, assigneeID, f) ==
    LET task == Task(NewTaskID(now), userID, assigneeID, "new", NullTime, now)
        event == [id |-> task.id, type |-> "task_created", assignee_id |-> assigneeID,
                  created_by |-> userID, status |-> task.status]
        published == PublishTaskEvent(topics, "task_created", event, ~f.publish)
    IN  /\ ~f.user /\ ~f.notify
        /\ IF f.persist
           THEN /\ ~f.publish
                /\ DomainReturn(DomainResponse("TaskCreate", Nil, userID, "error"),
                                tasks, comments, topics, {<<"Failed to create task", task.id>>}, f)
           ELSE IF published.err
           THEN DomainReturn(DomainResponse("TaskCreate", task.id, userID, "error"),
                             tasks, comments, topics,
                             {<<"Failed to publish task creation event", task.id>>}, f)
           ELSE DomainReturn(DomainResponse("TaskCreate", task.id, userID, Nil),
                             [id \in DOMAIN tasks \cup {task.id} |->
                                 IF id = task.id THEN task ELSE tasks[id]],
                             comments, published.log, {}, f)

\* TaskService.Create
TaskCreate(userID, assigneeID, f) ==
    LET task == Task(NewTaskID(now), userID, assigneeID, "new", NullTime, now)
        event == [id |-> task.id, type |-> "task_created", assignee_id |-> assigneeID,
                  created_by |-> userID, status |-> task.status]
        published == PublishTaskEvent(topics, "task_created", event, ~f.publish)
        notifies == assigneeID # Nil /\ assigneeID # userID
        notified == IF notifies
                    THEN notifyTaskAssigned(published.log, task, userID, ~f.notify)
                    ELSE [log |-> published.log, entries |-> {}]
    IN  /\ ~f.user
        /\ IF ~hasAccessToProject(task.project_id, userID)
           THEN /\ CountTrue(f) = 0
                /\ DomainReturn(DomainResponse("TaskCreate", Nil, userID, "ErrProjectNotFound"),
                                tasks, comments, topics, {}, f)
           ELSE IF f.persist
           THEN /\ ~f.publish /\ ~f.notify
                /\ DomainReturn(DomainResponse("TaskCreate", Nil, userID, "error"),
                                tasks, comments, topics, {<<"Failed to create task", task.id>>}, f)
           ELSE /\ f.notify => notifies
                /\ DomainReturn(DomainResponse("TaskCreate", task.id, userID, Nil),
                                [id \in DOMAIN tasks \cup {task.id} |->
                                    IF id = task.id THEN task ELSE tasks[id]],
                                comments, notified.log,
                                LogIf(published.err,
                                      <<"Failed to publish task creation event", task.id>>)
                                \cup notified.entries, f)

\* the update requests callers send: a new assignee, or a new status
UpdateRequests ==
    {[assignee_id |-> "u2", status |-> Nil], [assignee_id |-> Nil, status |-> "completed"]}

\* TaskService.Update
TaskUpdate(id, userID, req, f) ==
    LET old == TaskGetByID(id)
        task == [old EXCEPT
                    !.assignee_id = IF req.assignee_id # Nil THEN req.assignee_id ELSE @,
                    !.status = IF req.status # Nil THEN req.status ELSE @,
                    !.updated_at = now]
        event == [id |-> task.id, type |-> "task_updated", assignee_id |-> task.assignee_id,
                  created_by |-> task.created_by, status |-> task.status]
        published == PublishTaskEvent(topics, "task_updated", event, ~f.publish)
        notifies == req.assignee_id # Nil /\ task.assignee_id # Nil /\ task.assignee_id # userID
        notified == IF notifies
                    THEN notifyTaskAssigned(published.log, task, userID, ~f.notify)
                    ELSE [log |-> published.log, entries |-> {}]
    IN  /\ ~f.user
        /\ IF old.id = Nil
           \* task.ProjectID on a nil pointer: the request ends in a panic
           THEN /\ CountTrue(f) = 0
                /\ DomainReturn(DomainResponse("TaskUpdate", id, userID, "panic"),
                                tasks, comments, topics, {}, f)
           ELSE IF ~hasAccessToProject(old.project_id, userID)
           THEN /\ CountTrue(f) = 0
                /\ DomainReturn(DomainResponse("TaskUpdate", id, userID, "ErrTaskAccessDenied"),
                                tasks, comments, topics, {}, f)
           ELSE IF f.persist
           THEN /\ ~f.publish /\ ~f.notify
                /\ DomainReturn(DomainResponse("TaskUpdate", id, userID, "error"),
                                tasks, comments, topics, {<<"Failed to update task", id>>}, f)
           ELSE /\ f.notify => notifies
                /\ DomainReturn(DomainResponse("TaskUpdate", id, userID, Nil),
                                [tasks EXCEPT ![id] = task], comments, notified.log,
                                LogIf(published.err,
                                      <<"Failed to publish task update event", id>>)
                                \cup notified.entries, f)

\* a recipient list built without looking at who the creator is
notifyAboutCommentNoDedup(log, task, comment, userID, ok) ==
    LET first == IF task.created_by # userID THEN <<task.created_by>> ELSE <<>>
        recipients ==
            IF task.assignee_id # Nil /\ task.assignee_id # userID
            THEN Append(first, task.assignee_id)
            ELSE first
        notificationEvent == NotificationEvent("task_commented", recipients, comment.id, "comment")
        published == PublishNotificationEvent(log, "notification", notificationEvent, ok)
    IN  IF Len(recipients) = 0 THEN [log |-> log, entries |-> {}, reached |-> FALSE]
        ELSE [log |-> published.log,
              entries |-> LogIf(published.err,
                                <<"Failed to publish notification event", comment.id>>),
              reached |-> TRUE]

\* CommentService.notifyAboutComment: [log, entries] after the call
notifyAboutComment(log, task, comment, userID, ok) ==
    LET first == IF task.created_by # userID THEN <<task.created_by>> ELSE <<>>
        recipients ==
            IF /\ task.assignee_id # Nil
               /\ task.assignee_id # userID
               /\ task.assignee_id # task.created_by
            THEN Append(first, task.assignee_id)
            ELSE first
        notificationEvent == NotificationEvent("task_commented", recipients, comment.id, "comment")
        published == PublishNotificationEvent(log, "notification", notificationEvent, ok)
    IN  IF Len(recipients) = 0 THEN [log |-> log, entries |-> {}, reached |-> FALSE]
        ELSE [log |-> published.log,
              entries |-> LogIf(published.err,
                                <<"Failed to publish notification event", comment.id>>),
              reached |-> TRUE]

\* CommentService.Create
CommentCreate(taskID, userID, f) ==
    LET task == TaskGetByID(taskID)
        comment == [id |-> NewCommentID(now), task_id |-> taskID, user_id |-> userID]
        event == [comment_id |-> comment.id, type |-> "task_commented", task_id |-> taskID,
                  user_id |-> userID]
        published == PublishCommentEvent(topics, "task_commented", event, ~f.publish)
        notified == notifyAboutComment(published.log, task, comment, userID, ~f.notify)
    IN  IF task.id = Nil
        \* task.ProjectID on a nil pointer: the request ends in a panic
        THEN /\ CountTrue(f) = 0
             /\ DomainReturn(DomainResponse("CommentCreate", Nil, userID, "panic"),
                             tasks, comments, topics, {}, f)
        ELSE IF ~hasAccessToProject(task.project_id, userID)
        THEN /\ CountTrue(f) = 0
             /\ DomainReturn(DomainResponse("CommentCreate", Nil, userID, "ErrTaskAccessDenied"),
                             tasks, comments, topics, {}, f)
        ELSE IF f.persist
        THEN /\ ~f.user /\ ~f.publish /\ ~f.notify
             /\ DomainReturn(DomainResponse("CommentCreate", Nil, userID, "error"),
                             tasks, comments, topics, {<<"Failed to create comment", comment.id>>}, f)
        ELSE IF f.user
        THEN /\ ~f.publish /\ ~f.notify
             /\ DomainReturn(DomainResponse("CommentCreate", Nil, userID, "error"),
                             tasks, comments \cup {comment}, topics,
                             {<<"Failed to get user for comment response", userID>>}, f)
        ELSE /\ f.notify => notified.reached
             /\ DomainReturn(DomainResponse("CommentCreate", comment.id, userID, Nil),
                             tasks, comments \cup {comment}, notified.log,
                             LogIf(published.err, <<"Failed to publish comment event", comment.id>>)
                             \cup notified.entries, f)

\* who comments on which task: the creator, the assignee, somebody else, on
\* a task with distinct creator and assignee ("t1"), with one user as both
\* ("t2"), without assignee ("t3"), and on a task that is not stored ("t9")
CommentInputs ==
    {<<"t1", "u1">>, <<"t1", "u2">>, <<"t1", "u3">>, <<"t2", "u2">>, <<"t2", "u1">>,
     <<"t3", "u1">>, <<"t3", "u2">>, <<"t9", "u1">>}

NextDomain ==
    \/ \E a \in {Nil, "u1", "u2"}, f \in DomainFaults : TaskCreate("u1", a, f)
    \/ \E id \in {"t1", "t9"}, req \in UpdateRequests, f \in DomainFaults :
          TaskUpdate(id, "u1", req, f)
    \/ \E in \in CommentInputs, f \in DomainFaults : CommentCreate(in[1], in[2], f)

SpecDomain == Init /\ [][NextDomain]_vars

(***************************************************************************)
(* Properties of the domain operations.                                    *)
(***************************************************************************)

\* the messages the step appends to a topic
Appended(topic) ==
    SubSeq(topics'[topic], Len(topics[topic]) + 1, Len(topics'[topic]))

Elems(seq) == {seq[i] : i \in 1..Len(seq)}

\* C5: when user U adds a comment to a task, at most one task-commented
\* notification event is published for it; its recipient list holds exactly
\* the task's creator and assignee without U, each once; it is published
\* whenever that set is not empty and the operation met no failure.
C5_CommentRecipients ==
    [][\A c \in comments' \ comments :
          LET task == tasks[c.task_id]
              expected == ({task.created_by, task.assignee_id} \ {Nil}) \ {c.user_id}
              new == Appended(NotificationsTopic)
          IN  /\ Len(new) <= 1
              /\ \A i \in 1..Len(new) :
                    LET event == Unmarshal(new[i].value).event IN
                    /\ event.type = "task_commented"
                    /\ event.entity_id = c.id
                    /\ Elems(event.user_ids) = expected
                    /\ Len(event.user_ids) = Cardinality(expected)
              /\ expected = {} => Len(new) = 0
              /\ (expected # {} /\ last'.logged = {}) => Len(new) = 1]_vars

\* a comment of a user who is neither creator nor assignee produced an event
\* for both of them, and a comment on a task whose creator is its assignee
\* would produce an event for one
C5_Witness ==
    \E i \in 1..Len(topics[NotificationsTopic]) :
        LET event == Unmarshal(topics[NotificationsTopic][i].value).event IN
        /\ event.type = "task_commented"
        /\ Len(event.user_ids) = 2
        /\ \E c \in comments : c.id = event.entity_id /\ c.user_id \notin Elems(event.user_ids)

PublishFailures ==
    {"Failed to publish task creation event", "Failed to publish task update event",
     "Failed to publish comment event", "Failed to publish notification event"}

\* the step logs a publish failure
PublishFailed == last'.at = now /\ \E e \in last'.logged : e[1] \in PublishFailures

\* C9: a task creation, task update or comment creation in which a publish
\* fails still returns success and its row is in the table afterwards; the
\* failure leaves only a log entry; no later step removes the row.
C9_PublishFailureTolerated ==
    [][/\ PublishFailed =>
            /\ last'.at = now /\ last'.err = Nil
            /\ last'.op = "TaskCreate" =>
                  /\ last'.entity \in DOMAIN tasks' \ DOMAIN tasks
                  /\ tasks'[last'.entity].created_by = last'.user
            /\ last'.op = "TaskUpdate" =>
                  /\ last'.entity \in DOMAIN tasks
                  /\ tasks'[last'.entity].updated_at = now
            /\ last'.op = "CommentCreate" =>
                  \E c \in comments' \ comments :
                      c.id = last'.entity /\ c.user_id = last'.user
       /\ DOMAIN tasks \subseteq DOMAIN tasks'
       /\ comments \subseteq comments']_vars

\* a task was created although the publish of its creation event failed
C9_Witness ==
    /\ last.op = "TaskCreate" /\ last.err = Nil
    /\ <<"Failed to publish task creation event", last.entity>> \in last.logged
    /\ last.entity \in DOMAIN tasks
    /\ topics["tasks"] = <<>>

(***************************************************************************)
(* The chat-bot sender.  A text is the sequence of the parts it was        *)
(* formatted from.                                                         *)
(***************************************************************************)

\* TelegramSender.botToken and TelegramSender.apiBaseURL
BotToken == "123456:bot-secret"
ApiBaseURL == "https://api.telegram.org/bot"

\* the text has the part in it
Contains(text, part) == \E i \in DOMAIN text : text[i] = part

\* a line of the log: logger.Info / logger.Error with the error's text and
\* the fields of the call
LogLine(level, msg, err, fields) == [level |-> level, msg |-> msg, err |-> err, fields |-> fields]

LineContains(line, part) ==
    \/ Contains(line.err, part)
    \/ \E field \in line.fields : Contains(field[2], part)

\* the text of the *url.Error that http.Client.Post returns: the operation,
\* the quoted URL of the request and the cause
UrlError(op, requestURL, cause) == <<op, " \"">> \o requestURL \o <<"\": ", cause>>

\* the fields of the "Prepared API URL" line
PreparedURLFields(apiURL) == {<<"api_url", apiURL>>}

\* what the API may answer to a request: the request fails (cause), or a
\* response arrives with a status, a body that can be read or not, that is
\* a JSON answer or not, with ok and a description
NoReply == [cause |-> Nil, status |-> "200 OK", readable |-> TRUE, json |-> TRUE,
            ok |-> TRUE, description |-> ""]
Replies ==
    { NoReply,
      [NoReply EXCEPT !.cause = "dial tcp: connection refused"],
      [NoReply EXCEPT !.cause = "context deadline exceeded"],
      [NoReply EXCEPT !.status = "400 Bad Request", !.ok = FALSE,
                      !.description = "Bad Request: chat not found"],
      [NoReply EXCEPT !.status = "502 Bad Gateway", !.json = FALSE],
      [NoReply EXCEPT !.status = "502 Bad Gateway", !.readable = FALSE],
      [NoReply EXCEPT !.json = FALSE],
      [NoReply EXCEPT !.ok = FALSE, !.description = "Forbidden: bot was blocked by the user"],
      [NoReply EXCEPT !.ok = FALSE, !.description = "Unauthorized"] }

\* the body of a response as ioutil.ReadAll returns it
BodyText(reply) ==
    IF ~reply.readable THEN <<>>
    ELSE IF ~reply.json THEN <<"<html>">>
    ELSE <<"{\"ok\":", IF reply.ok THEN "true" ELSE "false", ",\"description\":\"",
           reply.description, "\"}">>

\* TelegramSender.SendMessage: the lines it logs and the error it returns
\* (failed, with its text) for one answer of the API
SendMessageResult(telegramID, message, reply) ==
    LET apiURL == <<ApiBaseURL, BotToken, "/sendMessage">>
        before == { LogLine("info", "Starting to send Telegram message", <<>>,
                            {<<"chat_id", <<telegramID>>>>,
                             <<"message_length", <<ToString(Len(message))>>>>}),
                    LogLine("info", "Prepared API URL", <<>>, PreparedURLFields(apiURL)),
                    LogLine("info", "Prepared request data", <<>>,
                            {<<"chat_id", <<telegramID>>>>, <<"parse_mode", <<"Markdown">>>>}),
                    LogLine("info", "Sending POST request to Telegram API", <<>>, {}) }
        postErr == UrlError("Post", apiURL, reply.cause)
        received == before \cup
                    { LogLine("info", "Received response from Telegram API", <<>>,
                              {<<"status", <<reply.status>>>>}) }
        body == BodyText(reply)
        decoding == received \cup {LogLine("info", "Decoding response body", <<>>, {})}
        decodeErr == <<"invalid character '<' looking for beginning of value">>
    IN  IF reply.cause # Nil
        THEN [failed |-> TRUE,
              err |-> <<"post request failed: ">> \o postErr,
              logged |-> before \cup
                  {LogLine("error", "POST request failed", postErr,
                           {<<"chat_id", <<telegramID>>>>})}]
        ELSE IF reply.status # "200 OK"
        THEN [failed |-> TRUE,
              err |-> <<"telegram API returned non-OK status: ", reply.status, ", body: ">>
                      \o body,
              logged |-> received
                  \cup (IF reply.readable THEN {}
                        ELSE {LogLine("error", "Failed to read response body",
                                      <<"unexpected EOF">>, {})})
                  \cup {LogLine("error", "Telegram API returned non-OK status",
                                <<reply.status>>, {<<"response_body", body>>})}]
        ELSE IF ~reply.json
        THEN [failed |-> TRUE,
              err |-> <<"failed to decode response: ">> \o decodeErr,
              logged |-> decoding \cup
                  {LogLine("error", "Failed to decode response", decodeErr, {})}]
        ELSE IF ~reply.ok
        THEN [failed |-> TRUE,
              err |-> <<"telegram API returned error: ", reply.description>>,
              logged |-> decoding \cup
                  {LogLine("error", "Telegram API returned error in response",
                           <<reply.description>>, {})}]
        ELSE [failed |-> FALSE, err |-> <<>>,
              logged |-> decoding \cup
                  {LogLine("info", "Message sent successfully to Telegram", <<>>,
                           {<<"chat_id", <<telegramID>>>>})}]

\* TelegramSender.SendMessage: one call
SendMessage(telegramID, message, reply) ==
    LET result == SendMessageResult(telegramID, message, reply) IN
    /\ now <= MaxCalls
    /\ last' = [op |-> "SendMessage", id |-> EmptyID, entity |-> Nil, user |-> telegramID,
                failed |-> result.failed, err |-> result.err, at |-> now,
                logged |-> result.logged]
    /\ errorLog' = errorLog \cup {line \in result.logged : line.level = "error"}
    /\ now' = now + 1
    /\ UNCHANGED <<tasks, notifications, topics, faults, comments, cache, runs, reads, projects,
                   jobVars, pipeVars>>

\* chat ids and message texts of the calls
ChatIDs == {"1001", "1002"}
Messages == {<<"Task assigned">>, <<"Task ", "t1", " is overdue">>}

NextTelegram ==
    \E telegramID \in ChatIDs, message \in Messages, reply \in Replies :
        SendMessage(telegramID, message, reply)

SpecTelegram == Init /\ [][NextTelegram]_vars

\* C20: whatever the API answers to a SendMessage call, no line the call
\* logs and no error it returns has the bot token in it.
C20_TokenNeverDisclosed ==
    last.op = "SendMessage" =>
        /\ \A line \in last.logged : ~LineContains(line, BotToken)
        /\ ~Contains(last.err, BotToken)

====
